---- MODULE Spec2Model ----
(***************************************************************************)
(* Code-execution service: the batch submission endpoint (api.ts), the     *)
(* orchestrator's submitJob (orchestrator.ts), the shared Redis list, and  *)
(* the worker loop with its executor (worker.ts), and the orchestrator's    *)
(* scaling loop (orchestrator.ts, k8s.ts).                                 *)
(*                                                                         *)
(* JavaScript objects are functions from their own keys to values; an      *)
(* absent key is a key outside the DOMAIN.  A JSON text is the set of its  *)
(* key/value pairs.  The Redis list is a sequence whose index 1 is the     *)
(* head (left end).                                                        *)
(***************************************************************************)
EXTENDS Integers, Sequences, FiniteSets, TLC

(***************************************************************************)
(* Bounds                                                                  *)
(***************************************************************************)
MaxReqs == 2      \* HTTP requests the API handles
NumWorkers == 2   \* worker processes
MaxJobs == 2      \* submissions received over all requests
MaxListed == 2    \* pods a list call of the cluster API returns
MaxTicks == 2     \* invocations of scaleWorkers in flight at once
\* calls of Orchestrator.shutdown
MaxShutdowns == 2

Reqs == 1..MaxReqs
Workers == 1..NumWorkers
\* every uuid the handlers can draw: at most one per submission received
Tokens == 1..MaxJobs
Ticks == 1..MaxTicks

(***************************************************************************)
(* Request bodies.  A submission is whatever object the client put in the  *)
(* "submissions" array; nothing stops it from carrying extra keys.         *)
(***************************************************************************)
SubPython == [source_code |-> "print(1)", language_id |-> 71, problem_id |-> "p1"]

\* a client that sends a "token" key of its own
SubC ==
  [source_code |-> "int main(){}", language_id |-> 50, problem_id |-> "p2",
   callback_url |-> "http://cb", token |-> 1, timeout |-> 2000]

SubNoSource == [language_id |-> 71, problem_id |-> "p3"]

SubUnknownLang ==
  [source_code |-> "x", language_id |-> 9999, problem_id |-> "p4",
   callback_url |-> "http://cb"]

SubmissionInputs == {SubPython, SubC, SubNoSource, SubUnknownLang}

\* the inputs of the system-level specifications
SysInputs == {SubPython, SubC, SubNoSource}

\* request bodies of at most n submissions
Batches(inputs, n) == UNION {[1..k -> inputs] : k \in 0..n}

(***************************************************************************)
(* JavaScript helpers                                                      *)
(***************************************************************************)
NumberFields == {"language_id", "timeout", "memory_limit", "token"}

\* !obj.k : the key is absent, or holds 0 / the empty string
Falsy(obj, k) ==
  \/ k \notin DOMAIN obj
  \/ (IF k \in NumberFields THEN obj[k] = 0 ELSE obj[k] = "")

\* { ...a, ...b } : keys of b override keys of a
Spread(a, b) ==
  [k \in (DOMAIN a) \cup (DOMAIN b) |-> IF k \in DOMAIN b THEN b[k] ELSE a[k]]

JSONstringify(obj) == {<<k, obj[k]>> : k \in DOMAIN obj}

JSONparse(text) ==
  [k \in {p[1] : p \in text} |-> (CHOOSE p \in text : p[1] = k)[2]]

\* A value that is not JSON text: the pair with the empty key stands for the
\* characters JSON.parse stumbles over
NotJSON == {<<"", "{\"source_code\": ">>}

\* JSON.parse(text) returns; it throws a SyntaxError otherwise
Parses(text) == \A p \in text : p[1] # ""

(***************************************************************************)
(* State                                                                   *)
(***************************************************************************)
VARIABLES
  queue,        \* Redis list code-execution-queue, head first
  redisClient,  \* Orchestrator.redisClient: "client" or "null"
  uuidCount,    \* number of uuidv4() values drawn so far
  req,          \* per HTTP request: the /submit/batch handler's frame
  wk,           \* per worker process: the frame of Worker.start / executeCode
  disk,         \* temp directories that exist under os.tmpdir()
  rmPending,    \* temp directories whose fs.rm promise has not settled
  tmpCount,     \* number of mkdtemp names drawn so far
  pushLog,      \* history: <<token, data>> of each resolved submitJob, in order
  popLog,       \* history: tokens in the order BRPOP handed them out
  nResults,     \* history: per token, results returned by executeCode
  nPosts,       \* history: per token, axios.post calls issued
  orchConfig,   \* Orchestrator.config
  replicas,     \* spec.replicas of the worker deployment
  scalingInterval, \* Orchestrator.scalingInterval: a timer id, 0 for null
  timers,       \* ids of the interval timers that are armed
  tick,         \* per invocation slot: the frame of scaleWorkers
  lastTick,     \* history: how the invocation of scaleWorkers that ended last ended
  redisConn,    \* the orchestrator's connection: "connecting", "ready", "lost",
                \* "quitting" or "closed"
  quits,        \* the orchestrator's quit() calls that have not settled, oldest
                \* first: TRUE for one issued on a client not yet quitting
  shutdownCalls, \* history: calls of Orchestrator.shutdown so far
  shutdownThrew \* history: whether a call of Orchestrator.shutdown rejected

apiVars == <<redisClient, uuidCount, req, pushLog>>
workerVars == <<wk, disk, rmPending, tmpCount, popLog, nResults, nPosts>>
scaleVars == <<orchConfig, replicas, scalingInterval, timers, tick, lastTick>>
orchVars == <<redisConn, quits, shutdownCalls, shutdownThrew>>
vars == <<queue, redisClient, uuidCount, req, wk, disk, rmPending, tmpCount,
          pushLog, popLog, nResults, nPosts, orchConfig, replicas, scalingInterval,
          timers, tick, lastTick, redisConn, quits, shutdownCalls,
          shutdownThrew>>

\* new Worker(redisConfig): running = false, redisClient created.
\* midJob is history: shutdown was called during the job now in flight;
\* idleStop is history: shutdown was called during the BRPOP now outstanding,
\* while the list was empty.
NewWorker ==
  [pc |-> "init", running |-> FALSE, redisClient |-> "client", quit |-> "no",
   job |-> <<>>, tempDir |-> 0, result |-> <<>>, payload |-> <<>>,
   midJob |-> FALSE, idleStop |-> FALSE]

\* calledOn is history: the connection when the submitJob call in progress
\* was made
IdleReq ==
  [pc |-> "idle", submissions |-> <<>>, i |-> 0, tokens |-> <<>>,
   token |-> 0, job |-> <<>>, status |-> 0, body |-> <<>>, calledOn |-> "none"]

\* The defaults the Orchestrator constructor spreads the caller's
\* scalingConfig over
ScalingDefaults ==
  [minPods |-> 1, maxPods |-> 10, jobsPerPod |-> 5, checkIntervalMs |-> 10000]

\* this.config = { minPods: 1, ..., ...scalingConfig }
NewConfig(scalingConfig) == Spread(ScalingDefaults, scalingConfig)

\* the scalingConfig api.ts constructs its orchestrator with
ApiScalingConfig ==
  [minPods |-> 1, maxPods |-> 10, jobsPerPod |-> 5, checkIntervalMs |-> 10000]

\* scaleWorkers is not running in this slot
IdleTick == [pc |-> "idle", queueLength |-> 0, currentPods |-> 0, desiredPods |-> 0]

\* The processes right after construction, given what they were started
\* with: the list in Redis, the scalingConfig argument and the replica count
\* of the worker deployment. The constructor calls connectRedis without
\* awaiting it: the client exists, its connect() is `conn` far.
Constructed(list, scalingConfig, deployed, conn) ==
  /\ queue = list
  /\ redisClient = "client"
  /\ uuidCount = 0
  /\ req = [r \in Reqs |-> IdleReq]
  /\ wk = [w \in Workers |-> NewWorker]
  /\ disk = {}
  /\ rmPending = {}
  /\ tmpCount = 0
  /\ pushLog = <<>>
  /\ popLog = <<>>
  /\ nResults = [t \in Tokens |-> 0]
  /\ nPosts = [t \in Tokens |-> 0]
  /\ orchConfig = NewConfig(scalingConfig)
  /\ replicas = deployed
  /\ scalingInterval = 0
  /\ timers = {}
  /\ tick = [t \in Ticks |-> IdleTick]
  /\ lastTick = "none"
  /\ redisConn = conn
  /\ quits = <<>>
  /\ shutdownCalls = 0
  /\ shutdownThrew = FALSE

\* An empty list, the orchestrator of api.ts, one worker replica deployed
Init == Constructed(<<>>, ApiScalingConfig, 1, "connecting")

(***************************************************************************)
(* Orchestrator.submitJob and the batch handler                            *)
(***************************************************************************)
\* uuidv4(): a value never drawn before
uuidv4 == uuidCount + 1

\* Variant: { token, ...data }, a key of the submission overrides the uuid
MakeJob_dataWins(data, token) == Spread([token |-> token], data)

\* const job = { ...data, token }
MakeJob(data, token) == Spread(data, [token |-> token])

\* Variant: only the required fields are copied
MakeJobData_required(input) ==
  [k \in (DOMAIN input) \cap {"source_code", "language_id", "problem_id"} |-> input[k]]

\* api.ts submitJob: const jobData = { ...input }
MakeJobData(input) == Spread(input, <<>>)

Invalid(submission) ==
  \/ Falsy(submission, "source_code")
  \/ Falsy(submission, "language_id")
  \/ Falsy(submission, "problem_id")

\* Variant: the handlers collect the tokens in one array they share, so a 200
\* answer lists every token returned so far
Respond_shared(r, frame, s, b) ==
  req' = [req EXCEPT ![r] =
            [frame EXCEPT !.pc = "done", !.status = s,
                          !.body = IF s = 200
                                   THEN [i \in 1..Len(pushLog) |-> pushLog[i][1]]
                                   ELSE b,
                          !.calledOn = "none"]]

\* res.status(s).json(b); the handler is finished
Respond(r, frame, s, b) ==
  req' = [req EXCEPT ![r] = [frame EXCEPT !.pc = "done", !.status = s, !.body = b,
                                          !.calledOn = "none"]]

\* Variant: tokens.unshift(token)
TokensPush_front(tokens, token) == <<token>> \o tokens

\* How `tokens.push(token)` extends the list
TokensPush(tokens, token) == Append(tokens, token)

\* Variant: redis.rPush(QUEUE_NAME, value), the end BRPOP takes from
lPush_append(q, value) == Append(q, value)

\* redis.lPush(QUEUE_NAME, value)
lPush(q, value) == <<value>> \o q

\* One turn of `for (const submission of submissions)` up to its first await,
\* entered with the frame `frame` (i already points at the next element).
LoopFrom(r, frame) ==
  IF frame.i > Len(frame.submissions)
  THEN /\ Respond(r, frame, 200, frame.tokens)
       /\ UNCHANGED uuidCount
  ELSE LET submission == frame.submissions[frame.i] IN
       IF Invalid(submission)
       THEN /\ Respond(r, frame, 400, <<>>)
            /\ UNCHANGED uuidCount
       ELSE LET token == uuidv4 IN
            /\ uuidCount' = uuidCount + 1
            /\ IF redisClient = "null"
               THEN Respond(r, frame, 500, <<>>)
               ELSE req' = [req EXCEPT ![r] =
                       [frame EXCEPT !.pc = "push",
                                     !.calledOn = redisConn,
                                     !.token = token,
                                     !.job = MakeJob(MakeJobData(submission), token)]]

\* submissions received so far, over all requests
RECURSIVE Received(_)
Received(R) ==
  IF R = {} THEN 0
  ELSE LET r == CHOOSE x \in R : TRUE IN
       Len(req[r].submissions) + Received(R \ {r})

\* app.post('/submit/batch', ...) is entered with a request body
ReceiveBatch(r, submissions) ==
  /\ req[r].pc = "idle"
  /\ IF Len(submissions) = 0
     THEN /\ Respond(r, [req[r] EXCEPT !.submissions = submissions], 400, <<>>)
          /\ UNCHANGED uuidCount
     ELSE LoopFrom(r, [req[r] EXCEPT !.submissions = submissions, !.i = 1])
  /\ UNCHANGED <<queue, redisClient, pushLog>>
  /\ UNCHANGED <<workerVars, scaleVars, orchVars>>

\* Variant: submitJob and scaleWorkers exclude each other
PushResolves_afterTick(r) ==
  /\ req[r].pc = "push"
  /\ redisConn = "ready"
  /\ \A t \in Ticks : tick[t].pc = "idle"
  /\ LET frame == req[r]
         token == frame.token IN
     /\ queue' = lPush(queue, JSONstringify(frame.job))
     /\ pushLog' = Append(pushLog, <<token, frame.submissions[frame.i]>>)
     /\ LoopFrom(r, [frame EXCEPT !.tokens = TokensPush(frame.tokens, token),
                                  !.i = frame.i + 1,
                                  !.job = <<>>])
  /\ UNCHANGED redisClient
  /\ UNCHANGED <<workerVars, scaleVars, orchVars>>

\* await redis.lPush(...) resolves: the value is on the list, submitJob returns
\* the token, the handler records it and runs on to its next await or response.
\* The client sends the command only over an established connection; until
\* then the command waits in the client.
PushResolves(r) ==
  /\ req[r].pc = "push"
  /\ redisConn = "ready"
  /\ LET frame == req[r]
         token == frame.token IN
     /\ queue' = lPush(queue, JSONstringify(frame.job))
     /\ pushLog' = Append(pushLog, <<token, frame.submissions[frame.i]>>)
     /\ LoopFrom(r, [frame EXCEPT !.tokens = TokensPush(frame.tokens, token),
                                  !.i = frame.i + 1,
                                  !.job = <<>>])
  /\ UNCHANGED redisClient
  /\ UNCHANGED <<workerVars, scaleVars, orchVars>>

\* await redis.lPush(...) rejects before the command reaches the list:
\* submitJob throws, api.ts rethrows, the handler's catch answers 500
PushRejects(r) ==
  /\ req[r].pc = "push"
  /\ Respond(r, [req[r] EXCEPT !.job = <<>>], 500, <<>>)
  /\ UNCHANGED <<queue, redisClient, uuidCount, pushLog>>
  /\ UNCHANGED <<workerVars, scaleVars, orchVars>>

(***************************************************************************)
(* Worker: languageConfigs, executeCode, start, shutdown                   *)
(***************************************************************************)
\* JavaScript values whose type varies at run time carry their type
Num(n) == <<"number", n>>
Str(x) == <<"string", x>>
Null == <<"null">>

\* truthiness of such a value
Truthy(v) ==
  /\ v # Null
  /\ v # Num(0)
  /\ v # Str("")

\* a || b
OrElse(a, b) == IF Truthy(a) THEN a ELSE b

\* A text is the sequence of its parts; <<>> is the empty string
languageConfigs ==
  (71 :> [extension |-> "py", compile |-> FALSE, timeout |-> 10000]) @@
  (63 :> [extension |-> "js", compile |-> FALSE, timeout |-> 10000]) @@
  (50 :> [extension |-> "c", compile |-> TRUE, timeout |-> 10000]) @@
  (62 :> [extension |-> "java", compile |-> TRUE, timeout |-> 15000])

\* How a child process started by execAsync can end: `code` is the exit code,
\* or Null when the child was killed by a signal (exec's own timeout included)
CompileOutcomes ==
  { [code |-> Num(0), stdout |-> <<>>, stderr |-> <<>>],
    [code |-> Num(0), stdout |-> <<>>, stderr |-> <<"warning">>],
    [code |-> Num(1), stdout |-> <<>>, stderr |-> <<"error">>],
    [code |-> Num(137), stdout |-> <<>>, stderr |-> <<"Killed">>],
    [code |-> Null, stdout |-> <<>>, stderr |-> <<>>],
    [code |-> Null, stdout |-> <<>>, stderr |-> <<"warning">>] }

ExecuteOutcomes ==
  { [code |-> Num(0), stdout |-> <<"out">>, stderr |-> <<>>],
    [code |-> Num(1), stdout |-> <<>>, stderr |-> <<"trace">>],
    [code |-> Num(3), stdout |-> <<"partial">>, stderr |-> <<>>],
    [code |-> Num(124), stdout |-> <<>>, stderr |-> <<>>],
    [code |-> Num(137), stdout |-> <<>>, stderr |-> <<"Killed">>],
    [code |-> Null, stdout |-> <<>>, stderr |-> <<>>] }

\* The error execAsync rejects with when the child did not exit with 0; its
\* message names the command line that was run (`cmd`: the compile command or
\* the docker command of the execute phase)
ExecError(cmd, outcome) ==
  [code |-> outcome.code, stdout |-> outcome.stdout, stderr |-> outcome.stderr,
   message |-> <<"Command failed: ", cmd>>]

\* The error fs.mkdtemp / fs.writeFile reject with
FsError == [code |-> Str("ENOSPC"), message |-> <<"ENOSPC: no space left on device">>]

\* timeout || config.timeout
effectiveTimeout(job, config) ==
  IF Falsy(job, "timeout") THEN config.timeout ELSE job["timeout"]

\* process.hrtime(startTime) turned into milliseconds, startTime having been
\* taken at the start of `phase` ("none": startTime is still [0, 0])
Elapsed(phase) == <<"elapsed", phase>>
Ms(n) == <<"ms", n>>

\* Variant: the unknown language is reported like a failed run
UnsupportedResult_runtime(job) ==
  [status |-> "runtime_error",
   stderr |-> <<"Unsupported language_id: ", job["language_id"]>>,
   exit_code |-> Num(1)]

UnsupportedResult(job) ==
  [status |-> "error",
   stderr |-> <<"Unsupported language_id: ", job["language_id"]>>,
   exit_code |-> Num(1)]

CompilationErrorResult(stderr) ==
  [stderr |-> stderr, status |-> "compilation_error",
   execution_time |-> Elapsed("compile"), exit_code |-> Num(1)]

CompletedResult(outcome) ==
  [stdout |-> outcome.stdout, stderr |-> outcome.stderr, status |-> "completed",
   execution_time |-> Elapsed("execute"), exit_code |-> Num(0)]

\* How a call of executeCode completes
Returns(result) == [kind |-> "return", value |-> result]
Throws(error) == [kind |-> "throw", value |-> error]

\* Variant: an error without an exit code is reported as a completed run
CatchResult_signalOK(error, phase, timeoutMs) ==
  IF error.code = Num(124)
  THEN [stderr |-> <<"Execution timed out">>, status |-> "timeout",
        execution_time |-> Ms(timeoutMs), exit_code |-> Num(124)]
  ELSE IF error.code = Num(137)
  THEN [stderr |-> <<"Memory limit exceeded">>, status |-> "memory_limit_exceeded",
        execution_time |-> Elapsed(phase), exit_code |-> Num(137)]
  ELSE [stderr |-> IF "stderr" \in DOMAIN error /\ error.stderr # <<>>
                   THEN error.stderr ELSE error.message,
        status |-> IF Truthy(error.code) THEN "runtime_error" ELSE "completed",
        execution_time |-> IF Truthy(error.code) THEN Elapsed(phase) ELSE Ms(0),
        exit_code |-> OrElse(error.code, Num(0))]

\* The result built by the catch block of executeCode
CatchResult(error, phase, timeoutMs) ==
  LET executionTime == IF Truthy(error.code) THEN Elapsed(phase) ELSE Ms(0) IN
  IF error.code = Num(124)
  THEN [stderr |-> <<"Execution timed out">>, status |-> "timeout",
        execution_time |-> Ms(timeoutMs), exit_code |-> Num(124)]
  ELSE IF error.code = Num(137)
  THEN [stderr |-> <<"Memory limit exceeded">>, status |-> "memory_limit_exceeded",
        execution_time |-> executionTime, exit_code |-> Num(137)]
  ELSE LET base ==
             [stderr |-> IF "stderr" \in DOMAIN error /\ error.stderr # <<>>
                         THEN error.stderr ELSE error.message,
              status |-> "runtime_error",
              execution_time |-> executionTime,
              exit_code |-> OrElse(error.code, Num(1))] IN
       IF "stdout" \in DOMAIN error
       THEN Spread(base, [stdout |-> error.stdout])
       ELSE base

\* Variant: the catch block handles the two kill codes and rethrows the rest
Catch_rethrow(error, phase, timeoutMs) ==
  IF error.code \in {Num(124), Num(137)}
  THEN Returns(CatchResult(error, phase, timeoutMs))
  ELSE Throws(error)

\* try { ... } catch (error) { ... }: every error raised in the try block ends
\* in a return statement of the catch block
Catch(error, phase, timeoutMs) == Returns(CatchResult(error, phase, timeoutMs))

\* Variant: the element is read but left on the list
brPopRest_peek(q) == q

\* redis.BRPOP(QUEUE_NAME, 0) on a non-empty list: the element it returns and
\* the list it leaves behind
brPopElement(q) == q[Len(q)]
brPopRest(q) == SubSeq(q, 1, Len(q) - 1)

\* Variant: `while (true)`
NextIteration_forever(w, frame) ==
  wk' = [wk EXCEPT ![w] =
          [frame EXCEPT !.pc = "pop", !.job = <<>>, !.tempDir = 0,
                        !.result = <<>>, !.payload = <<>>, !.midJob = FALSE]]

\* `while (this.running)` is evaluated: the next BRPOP is issued, or start() ends
NextIteration(w, frame) ==
  wk' = [wk EXCEPT ![w] =
          [frame EXCEPT !.pc = IF frame.running THEN "pop" ELSE "stopped",
                        !.job = <<>>, !.tempDir = 0,
                        !.result = <<>>, !.payload = <<>>, !.midJob = FALSE]]

\* executeCode completes.  Its finally block starts fs.rm, without awaiting it,
\* when a temp directory was created.  A result goes to start(); an exception
\* would land in the catch of the worker loop, which logs and sleeps 1 s.
Settle(w, frame, completion) ==
  /\ rmPending' = IF frame.tempDir # 0 THEN rmPending \cup {frame.tempDir}
                  ELSE rmPending
  /\ IF completion.kind = "return"
     THEN /\ wk' = [wk EXCEPT ![w] =
                     [frame EXCEPT !.pc = "returned", !.result = completion.value]]
          /\ nResults' = [nResults EXCEPT ![frame.job["token"]] = @ + 1]
     ELSE /\ wk' = [wk EXCEPT ![w] = [frame EXCEPT !.pc = "backoff"]]
          /\ UNCHANGED nResults

\* worker.start(): running = true, then the first BRPOP is issued
WorkerStart(w) ==
  /\ wk[w].pc = "init"
  /\ IF wk[w].redisClient = "null"
     THEN wk' = [wk EXCEPT ![w].running = TRUE, ![w].pc = "stopped"]
     ELSE wk' = [wk EXCEPT ![w].running = TRUE, ![w].pc = "pop"]
  /\ UNCHANGED <<queue, disk, rmPending, tmpCount, popLog, nResults, nPosts>>
  /\ UNCHANGED <<apiVars, scaleVars, orchVars>>

\* Variant: a value that does not parse goes back on the list
DropMalformed_requeue(w) ==
  /\ queue' = lPush(brPopRest(queue), brPopElement(queue))
  /\ wk' = [wk EXCEPT ![w].pc = "backoff", ![w].idleStop = FALSE]
  /\ UNCHANGED <<popLog, nResults, rmPending>>

\* JSON.parse throws on the popped element: the loop's catch logs and sleeps
\* 1 s; the element is off the list
DropMalformed(w) ==
  /\ queue' = brPopRest(queue)
  /\ wk' = [wk EXCEPT ![w].pc = "backoff", ![w].idleStop = FALSE]
  /\ UNCHANGED <<popLog, nResults, rmPending>>

\* Variant: executeCode is not awaited, the next BRPOP is issued while the job
\* runs
Pop_eager(w) ==
  /\ wk[w].pc \in {"pop", "execute"}
  /\ queue # <<>>
  /\ IF ~Parses(brPopElement(queue))
     THEN DropMalformed(w)
     ELSE LET job == JSONparse(brPopElement(queue))
              frame == [wk[w] EXCEPT !.job = job, !.idleStop = FALSE] IN
          /\ queue' = brPopRest(queue)
          /\ popLog' = Append(popLog, job["token"])
          /\ IF job["language_id"] \notin DOMAIN languageConfigs
             THEN Settle(w, frame, Returns(UnsupportedResult(job)))
             ELSE /\ wk' = [wk EXCEPT ![w] = [frame EXCEPT !.pc = "mkdtemp"]]
                  /\ UNCHANGED <<nResults, rmPending>>
  /\ UNCHANGED <<disk, tmpCount, nPosts>>
  /\ UNCHANGED <<apiVars, scaleVars, orchVars>>

\* BRPOP resolves with an element; JSON.parse; executeCode runs up to its
\* first await (or returns at once for an unknown language_id)
Pop(w) ==
  /\ wk[w].pc = "pop"
  /\ queue # <<>>
  /\ IF ~Parses(brPopElement(queue))
     THEN DropMalformed(w)
     ELSE LET job == JSONparse(brPopElement(queue))
              frame == [wk[w] EXCEPT !.job = job, !.idleStop = FALSE] IN
          /\ queue' = brPopRest(queue)
          /\ popLog' = Append(popLog, job["token"])
          /\ IF job["language_id"] \notin DOMAIN languageConfigs
             THEN Settle(w, frame, Returns(UnsupportedResult(job)))
             ELSE /\ wk' = [wk EXCEPT ![w] = [frame EXCEPT !.pc = "mkdtemp"]]
                  /\ UNCHANGED <<nResults, rmPending>>
  /\ UNCHANGED <<disk, tmpCount, nPosts>>
  /\ UNCHANGED <<apiVars, scaleVars, orchVars>>

\* Variant: an error of BRPOP ends the loop
PopRejects_fatal(w) ==
  /\ wk[w].pc = "pop"
  /\ wk' = [wk EXCEPT ![w].pc = "stopped", ![w].idleStop = FALSE]
  /\ UNCHANGED <<queue, disk, rmPending, tmpCount, popLog, nResults, nPosts>>
  /\ UNCHANGED <<apiVars, scaleVars, orchVars>>

\* BRPOP rejects: the loop's catch logs and sleeps 1 s
PopRejects(w) ==
  /\ wk[w].pc = "pop"
  /\ wk' = [wk EXCEPT ![w].pc = "backoff", ![w].idleStop = FALSE]
  /\ UNCHANGED <<queue, disk, rmPending, tmpCount, popLog, nResults, nPosts>>
  /\ UNCHANGED <<apiVars, scaleVars, orchVars>>

\* the 1 s timer fires
BackoffDone(w) ==
  /\ wk[w].pc = "backoff"
  /\ NextIteration(w, wk[w])
  /\ UNCHANGED <<queue, disk, rmPending, tmpCount, popLog, nResults, nPosts>>
  /\ UNCHANGED <<apiVars, scaleVars, orchVars>>

\* await fs.mkdtemp(...) settles
MkdtempDone(w, ok) ==
  /\ wk[w].pc = "mkdtemp"
  /\ LET config == languageConfigs[wk[w].job["language_id"]] IN
     IF ok
     THEN /\ tmpCount' = tmpCount + 1
          /\ disk' = disk \cup {tmpCount + 1}
          /\ wk' = [wk EXCEPT ![w].pc = "write", ![w].tempDir = tmpCount + 1]
          /\ UNCHANGED <<nResults, rmPending>>
     ELSE /\ Settle(w, wk[w],
               Catch(FsError, "none", effectiveTimeout(wk[w].job, config)))
          /\ UNCHANGED <<tmpCount, disk>>
  /\ UNCHANGED <<queue, popLog, nPosts>>
  /\ UNCHANGED <<apiVars, scaleVars, orchVars>>

\* await fs.writeFile(...) settles
WriteDone(w, ok) ==
  /\ wk[w].pc = "write"
  /\ LET config == languageConfigs[wk[w].job["language_id"]] IN
     IF ok
     THEN /\ wk' = [wk EXCEPT ![w].pc = IF config.compile THEN "compile" ELSE "execute"]
          /\ UNCHANGED <<nResults, rmPending>>
     ELSE Settle(w, wk[w],
            Catch(FsError, "none", effectiveTimeout(wk[w].job, config)))
  /\ UNCHANGED <<queue, disk, tmpCount, popLog, nPosts>>
  /\ UNCHANGED <<apiVars, scaleVars, orchVars>>

\* Variant: stderr output of the compiler is not taken for a failure
CompileDone_lenient(w, outcome) ==
  /\ wk[w].pc = "compile"
  /\ LET config == languageConfigs[wk[w].job["language_id"]] IN
     IF outcome.code = Num(0)
     THEN /\ wk' = [wk EXCEPT ![w].pc = "execute"]
          /\ UNCHANGED <<nResults, rmPending>>
     ELSE Settle(w, wk[w],
            Catch(ExecError("config.compile(tempFilePath)", outcome), "compile",
                  effectiveTimeout(wk[w].job, config)))
  /\ UNCHANGED <<queue, disk, tmpCount, popLog, nPosts>>
  /\ UNCHANGED <<apiVars, scaleVars, orchVars>>

\* await execAsync(config.compile(tempFilePath), { timeout: 30000 }) settles
CompileDone(w, outcome) ==
  /\ wk[w].pc = "compile"
  /\ LET config == languageConfigs[wk[w].job["language_id"]] IN
     IF outcome.code = Num(0)
     THEN IF outcome.stderr # <<>>
          THEN Settle(w, wk[w], Returns(CompilationErrorResult(outcome.stderr)))
          ELSE /\ wk' = [wk EXCEPT ![w].pc = "execute"]
               /\ UNCHANGED <<nResults, rmPending>>
     ELSE Settle(w, wk[w],
            Catch(ExecError("config.compile(tempFilePath)", outcome), "compile",
                  effectiveTimeout(wk[w].job, config)))
  /\ UNCHANGED <<queue, disk, tmpCount, popLog, nPosts>>
  /\ UNCHANGED <<apiVars, scaleVars, orchVars>>

\* await execAsync(command) of the execute phase settles
ExecuteDone(w, outcome) ==
  /\ wk[w].pc = "execute"
  /\ LET config == languageConfigs[wk[w].job["language_id"]] IN
     IF outcome.code = Num(0)
     THEN Settle(w, wk[w], Returns(CompletedResult(outcome)))
     ELSE Settle(w, wk[w],
            Catch(ExecError("command", outcome), "execute",
                  effectiveTimeout(wk[w].job, config)))
  /\ UNCHANGED <<queue, disk, tmpCount, popLog, nPosts>>
  /\ UNCHANGED <<apiVars, scaleVars, orchVars>>

\* Variant: axios.post(job.callback_url, result)
WebhookBody_bare(job, result) == result

\* { token: job.token, ...result }
WebhookBody(job, result) == Spread([token |-> job["token"]], result)

\* `await this.executeCode(job)` resumes in start(): the webhook is posted when
\* the job has a callback_url, else the loop goes round
Deliver(w) ==
  /\ wk[w].pc = "returned"
  /\ IF ~Falsy(wk[w].job, "callback_url")
     THEN /\ wk' = [wk EXCEPT ![w].pc = "post",
                              ![w].payload = WebhookBody(wk[w].job, wk[w].result)]
          /\ nPosts' = [nPosts EXCEPT ![wk[w].job["token"]] = @ + 1]
     ELSE /\ NextIteration(w, wk[w])
          /\ UNCHANGED nPosts
  /\ UNCHANGED <<queue, disk, rmPending, tmpCount, popLog, nResults>>
  /\ UNCHANGED <<apiVars, scaleVars, orchVars>>

\* Variant: a failed POST is attempted again
PostDone_retry(w, ok) ==
  /\ wk[w].pc = "post"
  /\ IF ok
     THEN NextIteration(w, wk[w]) /\ UNCHANGED nPosts
     ELSE /\ nPosts' = [nPosts EXCEPT ![wk[w].job["token"]] = @ + 1]
          /\ UNCHANGED wk
  /\ UNCHANGED <<queue, disk, rmPending, tmpCount, popLog, nResults>>
  /\ UNCHANGED <<apiVars, scaleVars, orchVars>>

\* await axios.post(...) settles; either way only a log line is written
PostDone(w, ok) ==
  /\ wk[w].pc = "post"
  /\ NextIteration(w, wk[w])
  /\ UNCHANGED <<queue, disk, rmPending, tmpCount, popLog, nResults, nPosts>>
  /\ UNCHANGED <<apiVars, scaleVars, orchVars>>

\* the promise of fs.rm(tempDir, { recursive: true, force: true }) settles
RmDone(d, ok) ==
  /\ d \in rmPending
  /\ rmPending' = rmPending \ {d}
  /\ disk' = IF ok THEN disk \ {d} ELSE disk
  /\ UNCHANGED <<queue, wk, tmpCount, popLog, nResults, nPosts>>
  /\ UNCHANGED <<apiVars, scaleVars, orchVars>>

\* worker.shutdown() up to `await this.redisClient.quit()`.  The process starts
\* the loop in the statement after the constructor, so shutdown follows start.
WorkerShutdown(w) ==
  /\ wk[w].pc # "init"
  /\ wk[w].quit = "no"
  /\ wk' = [wk EXCEPT ![w].running = FALSE, ![w].quit = "pending",
                       ![w].midJob = wk[w].job # <<>>,
                       ![w].idleStop = (wk[w].pc = "pop" /\ queue = <<>>)]
  /\ UNCHANGED <<queue, disk, rmPending, tmpCount, popLog, nResults, nPosts>>
  /\ UNCHANGED <<apiVars, scaleVars, orchVars>>

\* quit() resolves and shutdown() sets redisClient = null.  QUIT is answered
\* after the commands sent before it, so not while a BRPOP is outstanding.
QuitResolves(w) ==
  /\ wk[w].quit = "pending"
  /\ wk[w].pc # "pop"
  /\ wk' = [wk EXCEPT ![w].redisClient = "null", ![w].quit = "done"]
  /\ UNCHANGED <<queue, disk, rmPending, tmpCount, popLog, nResults, nPosts>>
  /\ UNCHANGED <<apiVars, scaleVars, orchVars>>

(***************************************************************************)
(* Orchestrator: the scaling loop, and the cluster calls of k8s.ts         *)
(***************************************************************************)
\* A cpu string is <<n, rest>>: the number its leading digits spell (-1 when
\* it has none) and what follows them.  "pending" is the string topPods fills
\* in itself.  Parsed quantities are carried in microcores, in which the
\* strings below are exact and none of whose averages lies at the watermark.
NaN == <<"NaN">>
CpuPending == <<0 - 1, "pending">>
CpuStrings == {<<300, "m">>, <<950000000, "n">>}

\* a pod metric without containers
NoContainers == <<0 - 1, "no containers">>

\* parseInt(text)
parseInt(text) == IF text[1] < 0 THEN NaN ELSE Num(text[1])

\* 0.8 cores, in microcores
CpuWatermark == 800000

\* Variant: the suffix is ignored
parseCpu_plain(cpu) ==
  IF parseInt(cpu) = NaN THEN NaN ELSE Num(parseInt(cpu)[2] * 1000000)

parseCpu(cpu) ==
  IF parseInt(cpu) = NaN THEN NaN
  ELSE IF cpu[2] = "n" THEN Num(parseInt(cpu)[2] \div 1000)
  ELSE IF cpu[2] = "u" THEN Num(parseInt(cpu)[2])
  ELSE IF cpu[2] = "m" THEN Num(parseInt(cpu)[2] * 1000)
  ELSE Num(parseInt(cpu)[2] * 1000000)

\* sum + x on JavaScript numbers
Plus(a, b) == IF a = NaN \/ b = NaN THEN NaN ELSE Num(a[2] + b[2])

\* metrics.reduce((sum, pod) => sum + this.parseCpu(pod.cpu), 0)
RECURSIVE totalCpu(_)
totalCpu(metrics) ==
  IF metrics = <<>> THEN Num(0)
  ELSE Plus(totalCpu(SubSeq(metrics, 1, Len(metrics) - 1)),
            parseCpu(metrics[Len(metrics)].cpu))

\* avgCpuPerPod > 0.8, where avgCpuPerPod = currentPods > 0 ?
\* totalCpu / currentPods : 0
CpuHigh(metrics, currentPods) ==
  /\ currentPods > 0
  /\ totalCpu(metrics) # NaN
  /\ totalCpu(metrics)[2] > CpuWatermark * currentPods

\* Math.ceil(a / b) for integers a >= 0, b > 0
CeilDiv(a, b) == (a + b - 1) \div b

Min(a, b) == IF a <= b THEN a ELSE b
Max(a, b) == IF a >= b THEN a ELSE b

\* Variant: the backlog term is rounded down
BaselinePods_floor(cfg, queueLength) ==
  Max(cfg.minPods, Min(cfg.maxPods, queueLength \div cfg.jobsPerPod))

\* Math.max(minPods, Math.min(maxPods, Math.ceil(queueLength / jobsPerPod)))
BaselinePods(cfg, queueLength) ==
  Max(cfg.minPods, Min(cfg.maxPods, CeilDiv(queueLength, cfg.jobsPerPod)))

\* Variant: the CPU step is not capped by maxPods
BumpPods_uncapped(cfg, desiredPods) == desiredPods + 1

\* Math.min(this.config.maxPods, desiredPods + 1)
BumpPods(cfg, desiredPods) == Min(cfg.maxPods, desiredPods + 1)

\* the value of desiredPods when scaleWorkers reaches its comparison
DesiredPods(cfg, queueLength, currentPods, metrics) ==
  LET baseline == BaselinePods(cfg, queueLength) IN
  IF Len(metrics) > 0 /\ CpuHigh(metrics, currentPods)
  THEN BumpPods(cfg, baseline)
  ELSE baseline

\* What the metrics API can answer to topPods: an error, or an item per pod
\* it knows (pod k under the name k), each with the cpu string of its last
\* container, or with no container at all
MetricItems ==
  UNION {[1..k -> CpuStrings \cup {NoContainers}] : k \in 0..MaxListed}

\* k8s.ts topPods, given the pods listed (names 1..n) and the answer of the
\* metrics API: the items metricsRes, or an error when not ok
topPods(n, ok, metricsRes) ==
  IF n = 0 THEN <<>>
  ELSE IF ~ok THEN <<>>
  ELSE IF Len(metricsRes) = 0
  THEN [k \in 1..n |-> [name |-> k, cpu |-> CpuPending]]
  ELSE LET known == Min(n, Len(metricsRes)) IN
       [k \in 1..known |->
          [name |-> k,
           cpu |-> IF metricsRes[k] = NoContainers THEN <<0, "">>
                   ELSE metricsRes[k]]]

\* What topPods can return to scaleWorkers
TopPodsReturns ==
  {topPods(n, ok, items) : n \in 0..MaxListed, ok \in BOOLEAN, items \in MetricItems}

\* What getPodWithLabel can return: res.items.length
GetPodsReturns == 0..MaxListed

\* Variant: the error leaves scaleWorkers and, unhandled, ends the process
CatchScaling_rethrow(t) ==
  /\ tick' = [s \in Ticks |-> IdleTick]
  /\ timers' = {}
  /\ UNCHANGED <<scalingInterval, lastTick>>

\* catch (error) { logger.error('Scaling error:', error) }: the invocation
\* in slot t is over
CatchScaling(t) ==
  /\ tick' = [tick EXCEPT ![t] = IdleTick]
  /\ lastTick' = "error"
  /\ UNCHANGED <<scalingInterval, timers>>

\* Variant: the timer that is running is left armed
Rearm_keep(armed, old, new) == armed \cup {new}

\* if (this.scalingInterval) clearInterval(...); then setInterval(...)
Rearm(armed, old, new) == (armed \ {old}) \cup {new}

\* setInterval(...) returns a timer that is not among the armed ones
NewTimer == CHOOSE id \in 1..(Cardinality(timers) + 1) : id \notin timers

startScalingLoop ==
  /\ timers' = Rearm(timers, scalingInterval, NewTimer)
  /\ scalingInterval' = NewTimer
  /\ UNCHANGED <<orchConfig, replicas, tick, lastTick>>
  /\ UNCHANGED <<queue, apiVars, workerVars, orchVars>>

\* An armed timer fires: scaleWorkers starts in the first free slot of T and
\* runs to `await redis.LLEN(...)`, or to its catch when there is no client
TimerFires(id, T) ==
  /\ id \in timers
  /\ \E t \in T :
       /\ tick[t].pc = "idle"
       /\ \A s \in T : tick[s].pc = "idle" => t <= s
       /\ IF redisClient = "null"
          THEN CatchScaling(t)
          ELSE /\ tick' = [tick EXCEPT ![t].pc = "llen"]
               /\ UNCHANGED <<scalingInterval, timers, lastTick>>
  /\ UNCHANGED <<orchConfig, replicas>>
  /\ UNCHANGED <<queue, apiVars, workerVars, orchVars>>

\* await redis.LLEN(QUEUE_NAME) settles
LlenDone(t, ok) ==
  /\ tick[t].pc = "llen"
  /\ IF ok
     THEN /\ tick' = [tick EXCEPT ![t].pc = "pods", ![t].queueLength = Len(queue)]
          /\ UNCHANGED <<scalingInterval, timers, lastTick>>
     ELSE CatchScaling(t)
  /\ UNCHANGED <<orchConfig, replicas>>
  /\ UNCHANGED <<queue, apiVars, workerVars, orchVars>>

\* await this.k8sManager.getPodWithLabel(...) settles: it returns n, or the
\* list call rejects
GetPodsDone(t, ok, n) ==
  /\ tick[t].pc = "pods"
  /\ IF ok
     THEN /\ tick' = [tick EXCEPT ![t].pc = "top", ![t].currentPods = n]
          /\ UNCHANGED <<scalingInterval, timers, lastTick>>
     ELSE CatchScaling(t)
  /\ UNCHANGED <<orchConfig, replicas>>
  /\ UNCHANGED <<queue, apiVars, workerVars, orchVars>>

\* Variant: the deployment is patched on every tick
NeedsPatch_always(currentPods, desiredPods) == TRUE

\* if (currentPods !== desiredPods)
NeedsPatch(currentPods, desiredPods) == currentPods # desiredPods

\* await this.k8sManager.topPods(...) settles: it returns metrics, or its
\* list call rejects.  desiredPods is computed and compared with currentPods;
\* the patch request is sent, or nothing is done
TopPodsDone(t, ok, metrics) ==
  /\ tick[t].pc = "top"
  /\ IF ok
     THEN LET desiredPods == DesiredPods(orchConfig, tick[t].queueLength,
                                         tick[t].currentPods, metrics) IN
          IF NeedsPatch(tick[t].currentPods, desiredPods)
          THEN /\ tick' = [tick EXCEPT ![t].pc = "patch",
                                       ![t].desiredPods = desiredPods]
               /\ UNCHANGED <<scalingInterval, timers, lastTick>>
          ELSE /\ tick' = [tick EXCEPT ![t] = IdleTick]
               /\ lastTick' = "no-op"
               /\ UNCHANGED <<scalingInterval, timers>>
     ELSE CatchScaling(t)
  /\ UNCHANGED <<orchConfig, replicas>>
  /\ UNCHANGED <<queue, apiVars, workerVars, orchVars>>

\* k8s.ts scaleDeployment: patchNamespacedDeployment settles; a failure is
\* caught there and only written to the console
PatchDone(t, ok) ==
  /\ tick[t].pc = "patch"
  /\ tick' = [tick EXCEPT ![t] = IdleTick]
  /\ IF ok
     THEN /\ replicas' = tick[t].desiredPods
          /\ lastTick' = "patched"
     ELSE /\ lastTick' = "patch failed"
          /\ UNCHANGED replicas
  /\ UNCHANGED <<orchConfig, scalingInterval, timers>>
  /\ UNCHANGED <<queue, apiVars, workerVars, orchVars>>

(***************************************************************************)
(* Orchestrator: connectRedis, shutdown                                    *)
(***************************************************************************)
\* await this.redisClient.connect() resolves
ConnectDone ==
  /\ redisConn = "connecting"
  /\ redisConn' = "ready"
  /\ UNCHANGED <<quits, shutdownCalls, shutdownThrew>>
  /\ UNCHANGED <<queue, apiVars, workerVars, scaleVars>>

\* The established connection breaks: the client's 'error' listener logs it
\* and the client starts to reconnect
ConnLost ==
  /\ redisConn = "ready"
  /\ redisConn' = "lost"
  /\ UNCHANGED <<quits, shutdownCalls, shutdownThrew>>
  /\ UNCHANGED <<queue, apiVars, workerVars, scaleVars>>

\* The client has reconnected
Reconnected ==
  /\ redisConn = "lost"
  /\ redisConn' = "ready"
  /\ UNCHANGED <<quits, shutdownCalls, shutdownThrew>>
  /\ UNCHANGED <<queue, apiVars, workerVars, scaleVars>>

\* Variant: shutdown leaves the interval timer armed
Disarm_keep(armed, id) == armed

\* clearInterval(this.scalingInterval)
Disarm(armed, id) == armed \ {id}

\* Variant: the client is released without being told to quit
Quit_skip(pending, conn) == pending

\* this.redisClient.quit() is called on a client whose connection is `conn`
Quit(pending, conn) == Append(pending, conn \notin {"quitting", "closed"})

\* shutdown() is called and runs to `await this.redisClient.quit()`, or to its
\* end when there is no client. No timer has the id 0, which stands for null.
OrchShutdown ==
  /\ shutdownCalls < MaxShutdowns
  /\ shutdownCalls' = shutdownCalls + 1
  /\ timers' = Disarm(timers, scalingInterval)
  /\ scalingInterval' = 0
  /\ IF redisClient # "null"
     THEN /\ quits' = Quit(quits, redisConn)
          /\ redisConn' = "quitting"
     ELSE UNCHANGED <<quits, redisConn>>
  /\ UNCHANGED <<shutdownThrew, orchConfig, replicas, tick, lastTick>>
  /\ UNCHANGED <<queue, apiVars, workerVars>>

\* The oldest quit() settles and the call of shutdown that awaits it runs to
\* its end. A quit() issued on a client that was already quitting is answered
\* by the client library either way; one that rejects makes shutdown reject.
\* QUIT is answered after an LLEN that is outstanding on the connection.
QuitSettles(ok) ==
  /\ quits # <<>>
  /\ \A t \in Ticks : tick[t].pc # "llen"
  /\ ok \/ ~Head(quits)
  /\ quits' = Tail(quits)
  /\ IF ok
     THEN /\ redisClient' = "null"
          /\ redisConn' = "closed"
          /\ UNCHANGED shutdownThrew
     ELSE /\ shutdownThrew' = TRUE
          /\ UNCHANGED <<redisClient, redisConn>>
  /\ UNCHANGED <<shutdownCalls, uuidCount, req, pushLog>>
  /\ UNCHANGED <<queue, workerVars, scaleVars>>

\* The system-level specification lets a child process end in one normal and
\* one failing way per phase and the file system succeed; SpecExec below
\* explores every outcome with a single worker.
SysCompileOutcomes == {o \in CompileOutcomes : o.stderr \in {<<>>, <<"error">>}}
SysExecuteOutcomes == {o \in ExecuteOutcomes : o.code \in {Num(0), Num(124)}}

\* The API serves the requests R; over all requests it receives at most `cap`
\* submissions.
ApiNext(R, inputs, cap) ==
  \/ \E r \in R, submissions \in Batches(inputs, cap - Received(Reqs)) :
        ReceiveBatch(r, submissions)
  \/ \E r \in R : PushResolves(r)
  \/ \E r \in R : PushRejects(r)

WorkerNext(W, fsOutcomes, compileOutcomes, executeOutcomes) ==
  \/ \E w \in W : WorkerStart(w)
  \/ \E w \in W : Pop(w)
  \/ \E w \in W : PopRejects(w)
  \/ \E w \in W : BackoffDone(w)
  \/ \E w \in W, ok \in fsOutcomes : MkdtempDone(w, ok)
  \/ \E w \in W, ok \in fsOutcomes : WriteDone(w, ok)
  \/ \E w \in W, outcome \in compileOutcomes : CompileDone(w, outcome)
  \/ \E w \in W, outcome \in executeOutcomes : ExecuteDone(w, outcome)
  \/ \E w \in W : Deliver(w)
  \/ \E w \in W, ok \in BOOLEAN : PostDone(w, ok)
  \/ \E d \in rmPending, ok \in fsOutcomes : RmDone(d, ok)
  \/ \E w \in W : WorkerShutdown(w)
  \/ \E w \in W : QuitResolves(w)

\* All the requests, drained by one worker
Next ==
  \/ ConnectDone
  \/ ApiNext(Reqs, SysInputs, MaxJobs)
  \/ WorkerNext({1}, {TRUE}, SysCompileOutcomes, SysExecuteOutcomes)

\* One request of at most two submissions, drained by all the workers
NextWorkers ==
  \/ ConnectDone
  \/ ApiNext({1}, SysInputs, 2)
  \/ WorkerNext(Workers, {TRUE}, SysCompileOutcomes, SysExecuteOutcomes)

SpecWorkers == Init /\ [][NextWorkers]_vars

Spec == Init /\ [][Next]_vars

\* One request, one worker, every outcome of the file system and of the child
\* processes
NextExec ==
  \/ ConnectDone
  \/ ApiNext({1}, SubmissionInputs, MaxJobs)
  \/ WorkerNext({1}, BOOLEAN, CompileOutcomes, ExecuteOutcomes)

SpecExec == Init /\ [][NextExec]_vars

\* The same with the promises the worker awaits settling in the end: the 1 s
\* timer of the loop's catch fires; a BRPOP that is issued again and again on a
\* non-empty list is not rejected for ever; the file system answers; the
\* compile command ends (the 30 s timeout of exec kills it otherwise) and so
\* does the run command (`timeout Ns` ends it otherwise); Redis answers QUIT
\* once the commands sent before it are answered.
ExecFairness ==
  /\ WF_vars(BackoffDone(1))
  /\ SF_vars(Pop(1))
  /\ WF_vars(\E ok \in BOOLEAN : MkdtempDone(1, ok))
  /\ WF_vars(\E ok \in BOOLEAN : WriteDone(1, ok))
  /\ WF_vars(\E outcome \in CompileOutcomes : CompileDone(1, outcome))
  /\ WF_vars(\E outcome \in ExecuteOutcomes : ExecuteDone(1, outcome))
  /\ WF_vars(QuitResolves(1))

FairExec == SpecExec /\ ExecFairness

\* Another client of the Redis server has left values on the list that are
\* not JSON text
InitForeign ==
  \E n \in 1..MaxJobs :
    Constructed([k \in 1..n |-> NotJSON], ApiScalingConfig, 1, "connecting")

FairForeign == InitForeign /\ [][NextExec]_vars /\ ExecFairness

\* Jobs an earlier run of the API left on the list
Backlog(n) ==
  [k \in 1..n |-> JSONstringify(MakeJob(MakeJobData(SubPython), 0 - k))]
BacklogSizes == {0, 6, 37, 60}

\* scalingConfig arguments of the constructor
ScalingConfigs ==
  { <<>>,
    ApiScalingConfig,
    [minPods |-> 2, maxPods |-> 4, jobsPerPod |-> 1],
    [minPods |-> 3, maxPods |-> 2] }

InitScale ==
  \E n \in BacklogSizes, scalingConfig \in ScalingConfigs :
    Constructed(Backlog(n), scalingConfig, 1, "ready")

\* The scaling loop, with at most the invocations T of scaleWorkers in flight
ScaleNext(T) ==
  \/ startScalingLoop
  \/ \E id \in timers : TimerFires(id, T)
  \/ \E t \in T, ok \in BOOLEAN : LlenDone(t, ok)
  \/ \E t \in T, ok \in BOOLEAN, n \in GetPodsReturns : GetPodsDone(t, ok, n)
  \/ \E t \in T, metrics \in TopPodsReturns : TopPodsDone(t, TRUE, metrics)
  \/ \E t \in T : TopPodsDone(t, FALSE, <<>>)
  \/ \E t \in T, ok \in BOOLEAN : PatchDone(t, ok)

\* The scaling loop over a backlog, each invocation of scaleWorkers ending
\* before the timer fires again, next to one request of one submission
NextScale ==
  \/ ApiNext({1}, {SubPython}, 1)
  \/ ScaleNext({1})

SpecScale == InitScale /\ [][NextScale]_vars

\* The scaling loop of api.ts over five queued jobs, a timer that can fire
\* while earlier invocations of scaleWorkers are waiting, next to one request
\* of one submission; the metrics API has no pod metrics
InitOverlap == Constructed(Backlog(5), ApiScalingConfig, 1, "ready")

NextOverlap ==
  \/ ApiNext({1}, {SubPython}, 1)
  \/ startScalingLoop
  \/ \E id \in timers : TimerFires(id, Ticks)
  \/ \E t \in Ticks, ok \in BOOLEAN : LlenDone(t, ok)
  \/ \E t \in Ticks, ok \in BOOLEAN, n \in GetPodsReturns : GetPodsDone(t, ok, n)
  \/ \E t \in Ticks : TopPodsDone(t, TRUE, <<>>)
  \/ \E t \in Ticks : TopPodsDone(t, FALSE, <<>>)
  \/ \E t \in Ticks, ok \in BOOLEAN : PatchDone(t, ok)

SpecOverlap == InitOverlap /\ [][NextOverlap]_vars

\* The life of the orchestrator of api.ts: connection, scaling loop, shutdown,
\* next to one request
NextLife ==
  \/ ConnectDone
  \/ ConnLost
  \/ Reconnected
  \/ ApiNext({1}, {SubPython}, MaxJobs)
  \/ ScaleNext({1})
  \/ OrchShutdown
  \/ QuitSettles(TRUE)
  \/ QuitSettles(FALSE)

SpecLife == Init /\ [][NextLife]_vars

\* The API alone, its handlers running concurrently: every request may be
\* received while another is waiting for its lPush. One submission more than
\* MaxJobs is admitted, so that a batch of two can be split by another batch.
NextBatch ==
  \/ ConnectDone
  \/ ApiNext(Reqs, SysInputs, MaxJobs + 1)

SpecBatch == Init /\ [][NextBatch]_vars

(***************************************************************************)
(* Properties                                                              *)
(***************************************************************************)
TokenOf(element) == JSONparse(element)["token"]
QueueTokens == [i \in 1..Len(queue) |-> TokenOf(queue[i])]
ReturnedTokens == [i \in 1..Len(pushLog) |-> pushLog[i][1]]
NoDup(seq) == \A i, j \in 1..Len(seq) : i # j => seq[i] # seq[j]
Range(seq) == {seq[i] : i \in 1..Len(seq)}
ExecPhases == {"mkdtemp", "write", "compile", "execute"}
InFlight(w) == wk[w].pc \in ExecPhases \cup {"returned", "post"}
HasInvalid(submissions) ==
  \E i \in 1..Len(submissions) : Invalid(submissions[i])

\* C1: the queue is FIFO in producer order: when the push of job A resolved
\* before the push of job B, a pop of B is preceded by a pop of A.
C1_FifoProducerOrder ==
  \A a, b \in 1..Len(pushLog) :
    a < b =>
      \A j \in 1..Len(popLog) :
        popLog[j] = pushLog[b][1] =>
          \E i \in 1..(j - 1) : popLog[i] = pushLog[a][1]

\* C1 witness: two jobs were pushed and both have been popped.
C1_Witness == Len(pushLog) >= 2 /\ Len(popLog) >= 2

\* C2: with workers popping concurrently, no job is handed to the executor
\* twice or by two workers, and a popped job is never on the queue again.
C2_PoppedAtMostOnce ==
  /\ NoDup(popLog)
  /\ \A w1, w2 \in Workers :
       (w1 # w2 /\ InFlight(w1) /\ InFlight(w2)) =>
         wk[w1].job["token"] # wk[w2].job["token"]
  /\ \A k \in 1..Len(queue) : TokenOf(queue[k]) \notin Range(popLog)

\* C2 witness: two workers hold a job each, and shutdown() has been called on
\* one of them meanwhile.
C2_Witness ==
  \E w1, w2 \in Workers :
    /\ w1 # w2
    /\ InFlight(w1) /\ InFlight(w2)
    /\ ~wk[w1].running

\* C3 (the claim as stated): a batch with an element that fails validation
\* pushes no job and returns no tokens, wherever the invalid element stands.
C3_InvalidBatchPushesNothing ==
  \A r \in Reqs :
    HasInvalid(req[r].submissions) =>
      /\ Len(req[r].tokens) = 0
      /\ Len(req[r].body) = 0
      /\ \A k \in 1..Len(queue) : TokenOf(queue[k]) # req[r].token

\* C4 (the claim as stated): when a push of a batch fails the submitter gets
\* an error and none of the batch's jobs is on the queue.
C4_NoPartialBatch ==
  \A r \in Reqs :
    (req[r].pc = "done" /\ req[r].status = 500) =>
      \A k \in 1..Len(queue) : TokenOf(queue[k]) \notin Range(req[r].tokens)

\* C5: every token returned by submitJob differs from all tokens returned
\* before, and no two job descriptors, on the queue or popped, share a token.
C5_TokensUnique ==
  /\ NoDup(ReturnedTokens)
  /\ NoDup(QueueTokens \o popLog)
  /\ Range(QueueTokens \o popLog) = Range(ReturnedTokens)

\* C5 witness: two tokens were returned, one for a submission that carried a
\* token key of its own with another value.
C5_Witness ==
  /\ Len(pushLog) >= 2
  /\ \E i \in 1..Len(pushLog) :
       /\ "token" \in DOMAIN pushLog[i][2]
       /\ pushLog[i][2]["token"] # pushLog[i][1]

\* C6: after N successful submitJob calls and no pop the queue holds N values,
\* and the value of each call is its job descriptor merged with its token.
C6_QueueGrowsByN ==
  popLog = <<>> =>
    /\ Len(queue) = Len(pushLog)
    /\ \A i \in 1..Len(pushLog) :
         LET token == pushLog[i][1]
             data == pushLog[i][2]
             job == JSONparse(queue[Len(queue) - i + 1]) IN
         /\ DOMAIN job = (DOMAIN data) \cup {"token"}
         /\ job["token"] = token
         /\ \A k \in (DOMAIN data) \ {"token"} : job[k] = data[k]

\* C6 witness: two calls succeeded and nothing was popped.
C6_Witness == popLog = <<>> /\ Len(pushLog) = 2

\* C7: a batch answered 200 carries one token per submission, the i-th token
\* being the one returned for the i-th submission, pushed before the (i+1)-th.
C7_BatchTokensInOrder ==
  \A r \in Reqs :
    (req[r].pc = "done" /\ req[r].status = 200) =>
      /\ Len(req[r].body) = Len(req[r].submissions)
      /\ \A i \in 1..Len(req[r].body) :
           \E j \in 1..Len(pushLog) :
             /\ pushLog[j][1] = req[r].body[i]
             /\ pushLog[j][2] = req[r].submissions[i]
             /\ \A i2 \in 1..Len(req[r].body) :
                  i < i2 =>
                    \E j2 \in 1..Len(pushLog) :
                      j < j2 /\ pushLog[j2][1] = req[r].body[i2]

\* C7 witness: a batch of two different submissions was answered 200.
C7_Witness ==
  \E r \in Reqs :
    /\ req[r].pc = "done" /\ req[r].status = 200
    /\ Len(req[r].submissions) = 2
    /\ req[r].submissions[1] # req[r].submissions[2]

\* C8: for a popped job the executor hands the worker one result, never two,
\* and the webhook body carries the job's token, which is the token
\* submitJob returned for that submission.
C8_OneResultSameToken ==
  /\ \A t \in Tokens : nResults[t] <= 1
  /\ \A w \in Workers :
       /\ wk[w].pc \in ExecPhases => nResults[wk[w].job["token"]] = 0
       /\ wk[w].pc \in {"returned", "post"} => nResults[wk[w].job["token"]] = 1
       /\ wk[w].pc = "post" =>
            /\ "token" \in DOMAIN wk[w].payload
            /\ wk[w].payload["token"] = wk[w].job["token"]
            /\ wk[w].payload["status"] = wk[w].result["status"]
            /\ \E i \in 1..Len(pushLog) :
                 /\ pushLog[i][1] = wk[w].payload["token"]
                 /\ pushLog[i][2]["problem_id"] = wk[w].job["problem_id"]

\* C8 witness: a webhook is being posted for a job whose submission carried
\* a token key of its own.
C8_Witness ==
  \E w \in Workers :
    /\ wk[w].pc = "post"
    /\ \E i \in 1..Len(pushLog) :
         /\ pushLog[i][1] = wk[w].job["token"]
         /\ "token" \in DOMAIN pushLog[i][2]

\* C9: executeCode never throws: every popped job is still inside the
\* executor or has given the worker loop a result descriptor.
C9_ExecutorNeverThrows ==
  \A i \in 1..Len(popLog) :
    \/ \E w \in Workers : wk[w].pc \in ExecPhases /\ wk[w].job["token"] = popLog[i]
    \/ nResults[popLog[i]] >= 1

\* C9 witness: a failure before the compile phase (mkdtemp or writeFile) was
\* turned into a returned result.
C9_Witness ==
  \E w \in Workers :
    /\ wk[w].pc = "returned"
    /\ wk[w].result["status"] = "runtime_error"
    /\ wk[w].result["execution_time"] = Elapsed("none")

\* C10 (the claim as stated): when executeCode has returned, the temp
\* directory it created is gone from the disk.
C10_TempDirGoneAtReturn ==
  \A w \in Workers :
    (wk[w].pc \in {"returned", "post"} /\ wk[w].tempDir # 0) =>
      wk[w].tempDir \notin disk

\* the job of worker w names a language that languageConfigs does not have
UnknownLanguage(w) ==
  /\ wk[w].pc \in ExecPhases \cup {"returned", "post"}
  /\ wk[w].job["language_id"] \notin DOMAIN languageConfigs

\* C11: a job with an unknown language_id is accepted at submission (the API
\* answers 400 only for a missing required field); when it is executed the
\* result is {status: error, stderr: "Unsupported language_id: N",
\* exit_code: 1}, no temp directory or file is created for it and neither the
\* compile nor the execute phase is entered.
C11_UnknownLanguage ==
  /\ [](\A r \in Reqs :
          (req[r].pc = "done" /\ req[r].status = 400 /\ req[r].submissions # <<>>)
            => HasInvalid(req[r].submissions))
  /\ [](\A w \in Workers :
          UnknownLanguage(w) =>
            /\ wk[w].pc \notin ExecPhases
            /\ wk[w].tempDir = 0
            /\ wk[w].result =
                 [status |-> "error",
                  stderr |-> <<"Unsupported language_id: ", wk[w].job["language_id"]>>,
                  exit_code |-> Num(1)])
  /\ [][\A w \in Workers :
          (wk[w].pc = "pop" /\ wk'[w].pc = "returned" /\ UnknownLanguage(w)')
            => (tmpCount' = tmpCount /\ disk' = disk /\ rmPending' = rmPending)]_vars

\* C11 witness: a submission with language_id 9999 was pushed by the API and
\* the executor has returned a result for it.
C11_Witness ==
  \E w \in Workers :
    /\ UnknownLanguage(w)
    /\ wk[w].pc = "returned"
    /\ \E i \in 1..Len(pushLog) :
         pushLog[i][1] = wk[w].job["token"] /\ pushLog[i][2] = SubUnknownLang

\* C12 (the claim as stated): when the compile command of a job writes to
\* stderr, with exit code zero or not, the executor returns compilation_error
\* with that stderr and exit_code 1.
C12_CompileStderrIsCompilationError ==
  [][\A w \in Workers, outcome \in CompileOutcomes :
       (outcome.stderr # <<>> /\ CompileDone(w, outcome)) =>
         /\ wk'[w].pc = "returned"
         /\ wk'[w].result["status"] = "compilation_error"
         /\ wk'[w].result["stderr"] = outcome.stderr
         /\ wk'[w].result["exit_code"] = Num(1)]_vars

\* C13 (the claim as stated): the execute phase is classified by the exit
\* code of the command: 0 gives completed with exit_code 0; 124 gives timeout
\* with stderr "Execution timed out", exit_code 124 and execution_time the
\* job's effective timeout; 137 gives memory_limit_exceeded with exit_code
\* 137; any other code c gives runtime_error with exit_code c and the stdout
\* and stderr captured from the command.
C13_ExecuteClassifiedByExitCode ==
  [][\A w \in Workers, outcome \in ExecuteOutcomes :
       (outcome.code # Null /\ ExecuteDone(w, outcome)) =>
         LET result == wk'[w].result
             job == wk[w].job
             timeoutMs == IF "timeout" \in DOMAIN job /\ job["timeout"] # 0
                          THEN job["timeout"]
                          ELSE languageConfigs[job["language_id"]].timeout IN
         /\ wk'[w].pc = "returned"
         /\ outcome.code = Num(0) =>
              result["status"] = "completed" /\ result["exit_code"] = Num(0)
         /\ outcome.code = Num(124) =>
              /\ result["status"] = "timeout"
              /\ result["stderr"] = <<"Execution timed out">>
              /\ result["exit_code"] = Num(124)
              /\ result["execution_time"] = Ms(timeoutMs)
         /\ outcome.code = Num(137) =>
              /\ result["status"] = "memory_limit_exceeded"
              /\ result["exit_code"] = Num(137)
         /\ outcome.code \notin {Num(0), Num(124), Num(137)} =>
              /\ result["status"] = "runtime_error"
              /\ result["exit_code"] = outcome.code
              /\ result["stdout"] = outcome.stdout
              /\ result["stderr"] = outcome.stderr]_vars

\* the exit_code the status taxonomy allows for a status
TaxonomyExitCode(status, exitCode) ==
  CASE status = "completed" -> exitCode = Num(0)
    [] status = "compilation_error" -> exitCode = Num(1)
    [] status = "timeout" -> exitCode = Num(124)
    [] status = "memory_limit_exceeded" -> exitCode = Num(137)
    [] status = "error" -> exitCode = Num(1)
    [] status = "runtime_error" ->
         /\ exitCode[1] = "number"
         /\ exitCode[2] \notin {0, 124, 137}
    [] OTHER -> FALSE

\* C14 (the claim as stated): every result the executor returns, on every
\* path, has a status of the taxonomy with the exit_code the taxonomy gives
\* it, and the statuses timeout and memory_limit_exceeded come from the
\* execute phase only.
C14_ResultsFollowTaxonomy ==
  [][\A w \in Workers :
       (wk[w].pc # "returned" /\ wk'[w].pc = "returned") =>
         LET result == wk'[w].result IN
         /\ TaxonomyExitCode(result["status"], result["exit_code"])
         /\ result["status"] \in {"timeout", "memory_limit_exceeded"} =>
              wk[w].pc = "execute"]_vars

\* the job carries a callback_url (a non-empty string)
HasCallback(job) == "callback_url" \in DOMAIN job /\ job["callback_url"] # ""

\* C15: webhook delivery is at-most-once with a single attempt: a popped job
\* gets one POST when it has a callback_url and none when it has not; when
\* the POST settles, failed or not, the worker issues no further POST for the
\* job, pushes nothing to the queue and goes on to its next pop (or ends, once
\* shut down).
C15_WebhookSingleAttempt ==
  /\ [](\A t \in Tokens : nPosts[t] <= 1)
  /\ [](\A k \in 1..Len(queue) : TokenOf(queue[k]) \notin Range(popLog))
  /\ [][\A w \in Workers :
          /\ (wk[w].pc = "returned" /\ wk'[w].pc # "returned") =>
               IF HasCallback(wk[w].job)
               THEN /\ wk'[w].pc = "post"
                    /\ nPosts'[wk[w].job["token"]] = 1
               ELSE /\ wk'[w].pc \in {"pop", "stopped"}
                    /\ nPosts'[wk[w].job["token"]] = 0
          /\ (wk[w].pc = "post" /\ wk'[w].pc # "post") =>
               /\ nPosts' = nPosts
               /\ queue' = queue
               /\ wk'[w].pc = IF wk[w].running THEN "pop" ELSE "stopped"]_vars

\* C15 witness: after the POST for a job settled the worker popped the next
\* job, and exactly one POST was issued for the first.
C15_Witness ==
  /\ Len(popLog) = 2
  /\ nPosts[popLog[1]] = 1
  /\ \E i \in 1..Len(pushLog) :
       pushLog[i][1] = popLog[1] /\ HasCallback(pushLog[i][2])

\* clamp(x, lo, hi), defined for lo <= hi
Clamp(x, lo, hi) == IF x < lo THEN lo ELSE IF x > hi THEN hi ELSE x

\* the least integer that is at least a / b
Ceiling(a, b) == CHOOSE c \in 0..a : c * b >= a /\ (c = 0 \/ (c - 1) * b < a)

\* clamp(ceil(L / jobs_per_pod), min_pods, max_pods)
Baseline(cfg, L) == Clamp(Ceiling(L, cfg.jobsPerPod), cfg.minPods, cfg.maxPods)

\* a CPU quantity in microcores: suffix n is 1e-9 cores, u 1e-6, m 1e-3
MicroCores(cpu) ==
  CASE cpu[2] = "n" -> cpu[1] \div 1000
    [] cpu[2] = "u" -> cpu[1]
    [] cpu[2] = "m" -> cpu[1] * 1000
    [] OTHER -> cpu[1] * 1000000

RECURSIVE SumMicroCores(_)
SumMicroCores(metrics) ==
  IF metrics = <<>> THEN 0
  ELSE MicroCores(metrics[1].cpu) + SumMicroCores(Tail(metrics))

\* the CPU signal: the metrics list is non-empty, holds quantities, and
\* sum(cpu_i) / P is above 0.8 cores
CpuSignal(metrics, P) ==
  /\ metrics # <<>>
  /\ \A k \in 1..Len(metrics) : metrics[k].cpu # CpuPending
  /\ P > 0
  /\ SumMicroCores(metrics) * 10 > 8 * 1000000 * P

\* the invocation in slot t resumes from its await of topPods
Resumes(t) == tick[t].pc = "top" /\ tick'[t] # tick[t]

\* the invocation in slot t settles on `desired`: it goes on to patch the
\* deployment to it, or, when it equals the pod count read, ends without a
\* patch
SettlesOn(t, desired) ==
  IF desired # tick[t].currentPods
  THEN tick'[t].pc = "patch" /\ tick'[t].desiredPods = desired
  ELSE tick'[t].pc = "idle" /\ replicas' = replicas

\* C16: without a CPU signal (metrics empty, or average not above the
\* watermark) a tick computes desired = clamp(ceil(L / jobs_per_pod),
\* min_pods, max_pods), for every L and P and every configuration for which
\* the clamp is defined (min_pods <= max_pods); a queue of 37 with 2 pods and
\* the configuration 5 / 1 / 10 is patched to 8 replicas.
C16_BaselineWithoutCpuSignal ==
  [][\A t \in Ticks : Resumes(t) =>
       LET baseline == Baseline(orchConfig, tick[t].queueLength) IN
       \A metrics \in TopPodsReturns :
       (/\ orchConfig.minPods <= orchConfig.maxPods
        /\ ~CpuSignal(metrics, tick[t].currentPods))
         => \/ /\ SettlesOn(t, baseline)
               /\ (/\ tick[t].queueLength = 37 /\ tick[t].currentPods = 2
                   /\ orchConfig.jobsPerPod = 5 /\ orchConfig.minPods = 1
                   /\ orchConfig.maxPods = 10)
                    => tick'[t].pc = "patch" /\ tick'[t].desiredPods = 8
            \/ ~TopPodsDone(t, TRUE, metrics)]_vars

\* C16 witness: with 37 jobs queued, 2 pods and the configuration 5 / 1 / 10
\* a tick without CPU signal has patched the deployment to 8 replicas.
C16_Witness ==
  /\ Len(queue) = 37
  /\ orchConfig = ScalingDefaults
  /\ lastTick = "patched"
  /\ replicas = 8

\* C17: with a non-empty metrics list and sum(cpu_i) / P above 0.8 a tick
\* computes desired = min(max_pods, baseline + 1), one step above the
\* baseline and never more; otherwise desired is the baseline (the baseline
\* being the clamp of C16, for min_pods <= max_pods).
C17_OneStepOnCpuSignal ==
  [][\A t \in Ticks : Resumes(t) =>
       LET baseline == Baseline(orchConfig, tick[t].queueLength) IN
       \A metrics \in TopPodsReturns :
       orchConfig.minPods <= orchConfig.maxPods
         => \/ IF CpuSignal(metrics, tick[t].currentPods)
               THEN SettlesOn(t, IF baseline + 1 <= orchConfig.maxPods
                                 THEN baseline + 1 ELSE orchConfig.maxPods)
               ELSE SettlesOn(t, baseline)
            \/ ~TopPodsDone(t, TRUE, metrics)]_vars

\* C17 witness: with 37 jobs queued and the configuration 5 / 1 / 10 a tick
\* has patched the deployment to 9 replicas, one above the baseline of 8.
C17_Witness ==
  /\ Len(queue) = 37
  /\ orchConfig = ScalingDefaults
  /\ lastTick = "patched"
  /\ replicas = 9

\* min_pods <= n <= max_pods
WithinPodBounds(n) == orchConfig.minPods <= n /\ n <= orchConfig.maxPods

\* C18 (the claim as stated): every replica count the orchestrator patches
\* onto the deployment lies between min_pods and max_pods, whatever the queue
\* length, the pod count, the CPU signal and the scaling configuration the
\* constructor was given.
C18_PatchedWithinBounds ==
  /\ \A t \in Ticks : tick[t].pc = "patch" => WithinPodBounds(tick[t].desiredPods)
  /\ lastTick = "patched" => WithinPodBounds(replicas)

\* C19: a tick patches the deployment, to exactly desired, if and only if
\* desired differs from the pod count P it read; with desired = P it is a
\* no-op that leaves the deployment and the queue as they are; no step of a
\* tick modifies the queue, and the replica count changes in no other way.
C19_PatchIffDesiredDiffers ==
  [][/\ \A t \in Ticks : Resumes(t) => \A metrics \in TopPodsReturns :
          \/ LET desired == DesiredPods(orchConfig, tick[t].queueLength,
                                        tick[t].currentPods, metrics) IN
             IF desired # tick[t].currentPods
             THEN tick'[t].pc = "patch" /\ tick'[t].desiredPods = desired
             ELSE /\ tick'[t].pc = "idle" /\ lastTick' = "no-op"
                  /\ replicas' = replicas /\ queue' = queue
          \/ ~TopPodsDone(t, TRUE, metrics)
     /\ \A t \in Ticks :
          (tick[t].pc = "patch" /\ tick'[t].pc = "idle" /\ lastTick' = "patched")
            => replicas' = tick[t].desiredPods
     /\ replicas' # replicas =>
          \E t \in Ticks : tick[t].pc = "patch" /\ replicas' = tick[t].desiredPods
     /\ tick' # tick => queue' = queue]_vars

\* C19 witness: after a patch of the deployment, a later tick found
\* desired = P and ended as a no-op, the queue holding jobs.
C19_Witness ==
  /\ lastTick = "no-op"
  /\ replicas # 1
  /\ queue # <<>>

\* every invocation slot is free
NoTickInFlight == \A t \in Ticks : tick[t].pc = "idle"

\* C20: a failure during a tick (queue length read, pod count read, metrics
\* read, deployment patch) is swallowed: the invocation ends, the scaling
\* timer stays armed, and the timer can fire the next tick.
C20_TickFailureSwallowed ==
  /\ [][\A t \in Ticks :
          (\/ LlenDone(t, FALSE)
           \/ GetPodsDone(t, FALSE, 0)
           \/ TopPodsDone(t, FALSE, <<>>)
           \/ PatchDone(t, FALSE))
            => /\ tick'[t].pc = "idle"
               /\ lastTick' \in {"error", "patch failed"}
               /\ timers' = timers
               /\ scalingInterval' = scalingInterval]_vars
  /\ [](lastTick \in {"error", "patch failed"} =>
          /\ scalingInterval \in timers
          /\ NoTickInFlight => ENABLED TimerFires(scalingInterval, {1}))

\* C20 witness: a tick ended in the catch block, and the timer has started
\* the next tick.
C20_Witness ==
  /\ lastTick = "error"
  /\ tick[1].pc = "llen"
  /\ \A t \in Ticks \ {1} : tick[t].pc = "idle"

\* C21: after any sequence of startScalingLoop and shutdown calls at most one
\* interval timer is armed, and it is the one Orchestrator.scalingInterval
\* holds: a start of a running loop has disarmed the timer it replaced.
C21_AtMostOneTimer ==
  /\ Cardinality(timers) <= 1
  /\ timers = IF scalingInterval = 0 THEN {} ELSE {scalingInterval}

\* The loop was started while it ran (the second timer id is in use), after a
\* shutdown had stopped an earlier one.
C21_Witness ==
  /\ shutdownCalls >= 1
  /\ scalingInterval = 2
  /\ timers = {2}

\* C22: a call of Orchestrator.shutdown leaves no timer armed and its quit
\* closes the connection and releases the client; a call that follows an
\* earlier one (the loop not started again in between) changes nothing, and no
\* call of shutdown ever rejects.
C22_ShutdownIdempotent ==
  [][/\ OrchShutdown => timers' = {} /\ scalingInterval' = 0
     /\ QuitSettles(TRUE) => redisClient' = "null" /\ redisConn' = "closed"
     /\ (shutdownCalls >= 1 /\ scalingInterval = 0 /\ OrchShutdown) =>
          UNCHANGED <<queue, apiVars, workerVars, scaleVars, redisConn, quits>>
     /\ ~shutdownThrew']_vars

\* C23: a call of submitJob made while the connection is not healthy (not yet
\* connected, lost, quitting or closed) ends as a failure only: the request is
\* answered 500 without tokens and the list is unchanged.
C23_UnhealthySubmitFails ==
  [][\A r \in Reqs :
       (req[r].pc = "push" /\ req[r].calledOn # "ready" /\ req'[r] # req[r]) =>
         /\ req'[r].pc = "done"
         /\ req'[r].status = 500
         /\ req'[r].body = <<>>
         /\ queue' = queue]_vars

\* C24: while the worker runs, a rejected BRPOP leads to the 1 s backoff and
\* the backoff to the next BRPOP, however many rejections came before; and
\* once the list answers, the job at its tail is popped (unless the worker is
\* shut down first).
C24_PopErrorsRetried ==
  /\ [][\A w \in Workers :
          /\ (wk[w].pc = "pop" /\ wk'[w].pc # "pop" /\ queue' = queue) =>
                wk'[w].pc = "backoff"
          /\ (wk[w].pc = "backoff" /\ wk[w].running /\ wk'[w].pc # "backoff") =>
                wk'[w].pc = "pop"]_vars
  /\ \A t \in Tokens :
       (/\ wk[1].pc \in {"pop", "backoff"}
        /\ queue # <<>>
        /\ TokenOf(brPopElement(queue)) = t)
         ~> (t \in Range(popLog) \/ ~wk[1].running)

\* A BRPOP was rejected while a job waited on the list, after an earlier job
\* had been processed
C24_Witness ==
  /\ wk[1].pc = "backoff"
  /\ wk[1].running
  /\ queue # <<>>
  /\ popLog # <<>>

\* C25: once shutdown has been called with a job in flight, the worker takes
\* the job through to the end of the loop body and then leaves the loop: it
\* issues no further BRPOP and pops nothing, and when it leaves the loop the
\* job has its result and, if it has a callback_url, its one POST.
C25_InFlightJobCompletes ==
  [][\A w \in Workers :
       (wk[w].midJob /\ wk'[w] # wk[w]) =>
         /\ wk'[w].pc \in ExecPhases \cup {"returned", "post", "stopped"}
         /\ popLog' = popLog
         /\ wk'[w].pc = "stopped" =>
              /\ nResults'[wk[w].job["token"]] = 1
              /\ nPosts'[wk[w].job["token"]] =
                   IF HasCallback(wk[w].job) THEN 1 ELSE 0]_vars

\* Shutdown was called during a job with a callback_url; quit() has been
\* answered, the job has its result, its POST is under way, and another job is
\* left on the list
C25_Witness ==
  /\ wk[1].midJob
  /\ wk[1].pc = "post"
  /\ wk[1].quit = "done"
  /\ nResults[wk[1].job["token"]] = 1
  /\ queue # <<>>

\* the compile command ended with exit code 0 and wrote nothing to stderr
CompiledOK(outcome) == outcome.code = Num(0) /\ outcome.stderr = <<>>

\* C26: a job enters the compile phase only if its language has a compile
\* template; a compile that failed ends the job with its result, and the
\* execute phase is entered only from a successful compile (compiled
\* language) or from the written source file (interpreted language); a job
\* that has its result never goes back into a phase; and every job the
\* executor was given gets its result in the end.
C26_ExecutorStateMachine ==
  /\ [][\A w \in Workers :
          /\ (wk'[w].pc = "compile" /\ wk[w].pc # "compile") =>
               /\ wk[w].pc = "write"
               /\ languageConfigs[wk'[w].job["language_id"]].compile
          /\ (wk'[w].pc = "execute" /\ wk[w].pc # "execute") =>
               IF languageConfigs[wk'[w].job["language_id"]].compile
               THEN \E outcome \in CompileOutcomes :
                      CompiledOK(outcome) /\ CompileDone(w, outcome)
               ELSE wk[w].pc = "write"
          /\ \A outcome \in CompileOutcomes :
               (~CompiledOK(outcome) /\ CompileDone(w, outcome)) =>
                 wk'[w].pc = "returned"
          /\ (wk[w].pc = "returned" /\ wk'[w].pc # "returned") =>
               wk'[w].pc \in {"post", "pop", "stopped"}]_vars
  /\ \A t \in Tokens : (t \in Range(popLog)) ~> (nResults[t] = 1)

\* A C job was compiled and run and has its result
C26_Witness ==
  /\ wk[1].pc = "returned"
  /\ wk[1].job["language_id"] = 50
  /\ wk[1].result["status"] = "completed"
  /\ nResults[wk[1].job["token"]] = 1

\* C27: when fs.mkdtemp or fs.writeFile fails, executeCode returns a result
\* with status error and exit_code 1 that has no execution_time.
C27_InternalFailureIsError ==
  [][\A w \in Workers :
       (MkdtempDone(w, FALSE) \/ WriteDone(w, FALSE)) =>
         /\ wk'[w].pc = "returned"
         /\ wk'[w].result["status"] = "error"
         /\ wk'[w].result["exit_code"] = Num(1)
         /\ "execution_time" \notin DOMAIN wk'[w].result]_vars

CallbackOf(t) ==
  \E i \in 1..Len(pushLog) : pushLog[i][1] = t /\ HasCallback(pushLog[i][2])

\* The jobs handed out by BRPOP that are not finished: without a result, or
\* with a callback_url and no POST yet, or with their POST not yet settled
Unfinished ==
  {t \in Range(popLog) :
     \/ nResults[t] = 0
     \/ CallbackOf(t) /\ nPosts[t] = 0
     \/ wk[1].pc = "post" /\ wk[1].job["token"] = t}

\* C29: the worker has at most one job in flight, and none while it waits in
\* BRPOP: every job it popped earlier has its result and, if it has a
\* callback_url, a POST that has settled.
C29_OneJobInFlight ==
  /\ Cardinality(Unfinished) <= 1
  /\ wk[1].pc = "pop" => Unfinished = {}

\* The second job is in flight after the first, which had a callback_url, got
\* its result and its POST
C29_Witness ==
  /\ Len(popLog) = 2
  /\ CallbackOf(popLog[1])
  /\ Unfinished = {popLog[2]}
  /\ wk[1].pc = "execute"

\* C30: a worker that awaits the answer to a webhook POST gets back to its
\* BRPOP (or, once shut down, to the end of its loop) whatever the receiver
\* does, also when it never answers.
C30_WebhookBounded ==
  \A w \in {1} : (wk[w].pc = "post") ~> (wk[w].pc \in {"pop", "stopped"})

\* C31: a worker that is waiting in BRPOP on an empty list when shutdown is
\* called pops nothing any more, and it gets out of the BRPOP and to the end
\* of its loop, with quit() answered, whether or not a job is pushed.
C31_PopInterruptible ==
  /\ [][(wk[1].idleStop /\ wk[1].pc = "pop") => popLog' = popLog]_vars
  /\ (wk[1].idleStop /\ wk[1].pc = "pop")
       ~> (wk[1].pc = "stopped" /\ wk[1].quit = "done")

\* C32: a submitJob call whose lPush is under way on an established connection
\* can complete whatever an invocation of scaleWorkers is doing; a step of
\* scaleWorkers leaves the list as it is, and every step leaves it as it is or
\* puts one value at its head, so that no queued job is lost, duplicated or
\* reordered.
C32_SubmitIndependentOfScaling ==
  /\ [](\A r \in Reqs :
         (req[r].pc = "push" /\ redisConn = "ready") => ENABLED PushResolves(r))
  /\ [][/\ tick' # tick => queue' = queue
        /\ \/ queue' = queue
           \/ /\ Len(queue') = Len(queue) + 1
              /\ SubSeq(queue', 2, Len(queue')) = queue
              /\ NoDup([i \in 1..Len(queue') |-> TokenOf(queue'[i])])]_vars

\* A submission was answered with its token while an invocation of
\* scaleWorkers that had read the list length before the push was waiting for
\* the cluster
C32_Witness ==
  /\ req[1].pc = "done"
  /\ req[1].status = 200
  /\ tick[1].pc \in {"pods", "top", "patch"}
  /\ Len(queue) = tick[1].queueLength + 1

\* C33: at most one invocation of scaleWorkers is in progress at any time.
C33_SingleReconciler ==
  Cardinality({t \in Ticks : tick[t].pc # "idle"}) <= 1

\* every call of Orchestrator.shutdown so far has returned (or rejected)
ShutdownReturned == shutdownCalls >= 1 /\ quits = <<>>

\* C34: a call of shutdown disarms the timer while the client is still there,
\* before its quit() closes the connection; and once shutdown has returned no
\* invocation of scaleWorkers, started before or after the call, goes on to
\* patch the deployment.
C34_ShutdownFinalForScaling ==
  [][/\ OrchShutdown =>
          /\ timers' = {}
          /\ redisClient' = redisClient
          /\ redisConn' # "closed" \/ redisConn = "closed"
     /\ ShutdownReturned =>
          \A t \in Ticks : tick'[t].pc = "patch" => tick[t].pc = "patch"]_vars
\* the compile command was killed by a signal, as exec does with a child that
\* outlives the `timeout: 30000` option: the error carries no exit code
CompileKilled(outcome) == outcome.code = Null

\* C35: when the compile command of a compiled-language job is killed at the
\* 30 s cap, the executor returns exactly one result for the job, the status of
\* that result is not completed, and the job does not enter the execute phase:
\* the call has returned, and a returned call only goes on to the webhook, the
\* next pop or the end of the loop.
C35_CompileCapStillOneResult ==
  [][\A w \in Workers :
       /\ \A outcome \in CompileOutcomes :
            (CompileKilled(outcome) /\ CompileDone(w, outcome)) =>
              /\ languageConfigs[wk[w].job["language_id"]].compile
              /\ wk'[w].pc = "returned"
              /\ wk'[w].job = wk[w].job
              /\ nResults[wk[w].job["token"]] = 0
              /\ nResults'[wk[w].job["token"]] = 1
              /\ wk'[w].result["status"] # "completed"
       /\ (wk[w].pc = "returned" /\ nResults[wk[w].job["token"]] = 1) =>
            /\ wk'[w].pc # "execute"
            /\ nResults'[wk[w].job["token"]] = 1]_vars

\* A C job whose compiler was killed without output has its one result
C35_Witness ==
  /\ wk[1].pc = "returned"
  /\ wk[1].job["language_id"] = 50
  /\ wk[1].result["stderr"] = <<"Command failed: ", "config.compile(tempFilePath)">>
  /\ wk[1].result["status"] = "runtime_error"
  /\ wk[1].result["exit_code"] = Num(1)
  /\ wk[1].result["execution_time"] = Ms(0)
  /\ nResults[wk[1].job["token"]] = 1


\* where the job with this token sits on the list (1 is the head)
PosOf(token) == CHOOSE p \in 1..Len(queue) : TokenOf(queue[p]) = token

\* C36: with batch requests handled concurrently, an accepted batch has one
\* token per submission, the i-th token belongs to a queued job carrying the
\* i-th submission, the jobs of the batch sit on the list in batch order (an
\* earlier job nearer the end BRPOP takes from), whatever other requests pushed
\* in between, and the response holds no token another request was given.
C36_ConcurrentBatchesKeepOrder ==
  \A r \in Reqs :
    (req[r].pc = "done" /\ req[r].status = 200) =>
      /\ Len(req[r].body) = Len(req[r].submissions)
      /\ NoDup(req[r].body)
      /\ \A i \in 1..Len(req[r].body) :
           /\ \E p \in 1..Len(queue) : TokenOf(queue[p]) = req[r].body[i]
           /\ LET job == JSONparse(queue[PosOf(req[r].body[i])])
                  data == req[r].submissions[i] IN
              \A k \in (DOMAIN data) \ {"token"} : k \in DOMAIN job /\ job[k] = data[k]
           /\ \A i2 \in 1..Len(req[r].body) :
                i < i2 => PosOf(req[r].body[i]) > PosOf(req[r].body[i2])
      /\ \A r2 \in Reqs \ {r} : Range(req[r2].tokens) \cap Range(req[r].body) = {}

\* Two batches were accepted and the job of the second sits between the two
\* jobs of the first
C36_Witness ==
  /\ req[1].pc = "done" /\ req[1].status = 200
  /\ req[2].pc = "done" /\ req[2].status = 200
  /\ Len(req[1].body) = 2
  /\ Len(req[2].body) = 1
  /\ PosOf(req[1].body[1]) > PosOf(req[2].body[1])
  /\ PosOf(req[2].body[1]) > PosOf(req[1].body[2])


====
